---------------------------- MODULE Spec2Model ----------------------------
(***************************************************************************)
(* Model of the aegis-rs vault decryption pipeline:                        *)
(*   src/src/lib.rs            parse_aegis_vault, extract_database,        *)
(*                             get_password, Vault::is_encrypted           *)
(*   src/src/vault/crypto.rs   derive_key, decrypt_master_key,             *)
(*                             try_decrypt_master_key, decrypt_database,   *)
(*                             decrypt                                     *)
(*                                                                         *)
(* Cryptography is modelled symbolically (perfect scrypt, perfect          *)
(* AES-256-GCM): a derived key is the tuple of the inputs it was derived   *)
(* from, a ciphertext is the term (key, nonce, plaintext), a tag is a term *)
(* over the ciphertext it authenticates, and a flipped bit is the `flip`   *)
(* field.  Text encodings (hex, base64, JSON) are values that decode or    *)
(* fail to decode.  Byte strings carry their length where the code's       *)
(* behaviour depends on it (the 12-byte nonce and the 32-byte key of       *)
(* Aes256Gcm).                                                             *)
(***************************************************************************)
EXTENDS Integers, Sequences, FiniteSets, TLC

VARIABLES
    doc_ok,       \* serde_json::from_str(vault_backup_contents) succeeds (lib.rs:60)
    vault,        \* the Vault that parse yields (lib.rs:43-50)
    pc,           \* position in parse_aegis_vault / extract_database / decrypt
    password,     \* what get_password returned (lib.rs:96)
    k,            \* try_decrypt_master_key: position in the filtered slot list
    master_key,   \* the key try_decrypt_master_key returned (crypto.rs:174)
    db,           \* the Database extract_database returned (lib.rs:60-61)
    result,       \* what parse_aegis_vault returned, or the panic that ended it
    stderr,       \* the eprintln! lines of crypto.rs:127, in order
    pw_calls,     \* number of get_password calls
    slot_calls,   \* header positions of the slots given to decrypt_master_key
    derive_calls, \* header positions of the slots given to derive_key
    aead_calls,   \* header positions of the slots given to cipher.decrypt
    db_aead,      \* number of aes_context.decrypt calls of decrypt_database
    db_parses     \* number of serde_json::from_str calls that parse a Database

vars == <<doc_ok, vault, pc, password, k, master_key, db, result, stderr,
          pw_calls, slot_calls, derive_calls, aead_calls, db_aead, db_parses>>

\* ------------------------------------------------------------------ bounds

\* Longest slot list of a header.
MaxSlots == 2

\* ------------------------------------------------------ program constants

\* The outer version extract_database accepts.
VaultVersion == 1
\* The inner version parse_aegis_vault accepts.
DatabaseVersion == 2
\* Output length given to scrypt::Params::new, the Aes256Gcm key length.
KeyLen == 32
\* Length of an Aes256Gcm nonce (Nonce::from_slice panics on any other).
NonceLen == 12

\* ----------------------------------------------------------- byte strings

Bytes(len, id) == [len |-> len, id |-> id]

\* A hex or base64 text: whether it decodes, and the bytes it decodes to.
Text(ok, bytes) == [ok |-> ok, bytes |-> bytes]

Ok(v) == [ok |-> TRUE, val |-> v]
Err(e) == [ok |-> FALSE, err |-> e]

\* Vec::from_hex
FromHex(h) == IF h.ok THEN Ok(h.bytes) ELSE Err("hex")

\* general_purpose::STANDARD.decode
Base64Decode(s) == IF s.ok THEN Ok(s.bytes) ELSE Err("base64")

Some(v) == [some |-> TRUE, val |-> v]
None == [some |-> FALSE]


\* ------------------------------------------------------------- JSON text

\* A JSON text: whether it is well-formed JSON of the Database shape, and its
\* tokens: the version, then the entries in document order.
Json(ok, toks) == [ok |-> ok, toks |-> toks]

\* serde_json::to_string of a Database (derive(Serialize), lib.rs:20-26).
Serialize(d) == Json(TRUE, <<d.version>> \o d.entries)

\* serde_json::from_str::<Database> (lib.rs:90, crypto.rs:166).
ParseDatabase(json) ==
    IF json.ok /\ Len(json.toks) >= 1
    THEN Ok([version |-> json.toks[1],
             entries |-> SubSeq(json.toks, 2, Len(json.toks))])
    ELSE Err("json")

\* The plaintext bytes of a database blob: whether they are UTF-8, and the
\* text they hold.
Plaintext(utf8, json) == [utf8 |-> utf8, json |-> json]

\* String::from_utf8 (crypto.rs:165).
FromUtf8(bytes) == IF bytes.utf8 THEN Ok(bytes.json) ELSE Err("utf8")

\* ---------------------------------------------------------- cryptography

\* An AES-256-GCM ciphertext and its tag, as the encrypting side makes them.
Ciphertext(key, nonce, pt) == [key |-> key, nonce |-> nonce, pt |-> pt, flip |-> 0]
TagOf(ct) == [of |-> ct, flip |-> 0]

\* A single flipped bit of a ciphertext or of a tag.
FlipBit(x) == [x EXCEPT !.flip = 1 - @]

\* Tag verification of AES-256-GCM: the tag is the one made over this
\* ciphertext, under this key and this nonce.
Authentic(key, nonce, ct, tag) ==
    /\ tag.flip = 0
    /\ tag.of = ct
    /\ ct.key = key
    /\ ct.nonce = nonce

Aes256GcmDecrypt_NoVerify(key, nonce, ct, tag) == Ok(ct.pt)

\* Aes256Gcm::decrypt over ciphertext || tag (crypto.rs:107-109, 160-162):
\* the plaintext, or an error and no plaintext.
Aes256GcmDecrypt(key, nonce, ct, tag) ==
    IF Authentic(key, nonce, ct, tag) THEN Ok(ct.pt) ELSE Err("aead")

\* Scrypt.hash_password_customized (crypto.rs:74-75): a KeyLen-byte key that
\* is a function of the password, the salt and the cost parameters.
ScryptHash(pw, salt, params) ==
    [pw |-> pw, salt |-> salt, log_n |-> params.log_n, r |-> params.r,
     p |-> params.p, len |-> params.len]

\* usize::BITS, the bound scrypt::Params::new puts on log_n.
UsizeBits == 64

\* scrypt::Params::new (crypto.rs:73).
ScryptParamsNew(log_n, r, p, len) ==
    IF r > 0 /\ p > 0 /\ log_n < UsizeBits
    THEN Ok([log_n |-> log_n, r |-> r, p |-> p, len |-> len])
    ELSE Err("scrypt params")

\* Shortest and longest salt SaltString::encode_b64 accepts, in bytes.
SaltMinBytes == 3
SaltMaxBytes == 48

\* SaltString::encode_b64 (crypto.rs:70).
SaltStringEncodeB64(bytes) ==
    IF bytes.len >= SaltMinBytes /\ bytes.len <= SaltMaxBytes
    THEN Ok(bytes) ELSE Err("salt length")

FloorLog2_Identity(n) == n

RECURSIVE FloorLog2(_)
\* (n as f32).log2() as u8 (crypto.rs:72): the cast truncates toward zero,
\* and saturates log2(0) = -inf to 0.  (Exact for n < 2^24, where n as f32
\* is n; the work factors of the model are far below.)
FloorLog2(n) == IF n <= 1 THEN 0 ELSE 1 + FloorLog2(n \div 2)

\* derive_key (crypto.rs:67-80).
derive_key(pw, slot) ==
    LET salt_bytes == FromHex(slot.salt) IN
    IF ~salt_bytes.ok THEN Err("Failed to decode salt hex") ELSE
    LET salt == SaltStringEncodeB64(salt_bytes.val) IN
    IF ~salt.ok THEN Err("salt") ELSE
    LET n == FloorLog2(slot.n)
        scrypt_params == ScryptParamsNew(n, slot.r, slot.p, KeyLen) IN
    IF ~scrypt_params.ok THEN Err("scrypt params") ELSE
    Ok(ScryptHash(pw, salt.val, scrypt_params.val))

\* The outcome of decrypt_master_key: Ok(key), Err(IncorrectPassword),
\* Err(ParamError), or a panic; with whether derive_key and cipher.decrypt
\* were called on the way.
SlotOutcome(kind, val, derived, aead) ==
    [kind |-> kind, val |-> val, derived |-> derived, aead |-> aead]

NoKey == Bytes(0, 0)

\* decrypt_master_key (crypto.rs:82-110).
decrypt_master_key(pw, slot) ==
    IF slot.slot_type.tag # "Password"
    THEN SlotOutcome("ParamError", NoKey, FALSE, FALSE) ELSE
    LET derived_key == derive_key(pw, slot.slot_type) IN
    IF ~derived_key.ok THEN SlotOutcome("ParamError", NoKey, TRUE, FALSE) ELSE
    LET key_nonce == FromHex(slot.key_params.nonce) IN
    IF ~key_nonce.ok THEN SlotOutcome("ParamError", NoKey, TRUE, FALSE) ELSE
    LET master_key_cipher == FromHex(slot.key) IN
    IF ~master_key_cipher.ok THEN SlotOutcome("ParamError", NoKey, TRUE, FALSE) ELSE
    LET tag == FromHex(slot.key_params.tag) IN
    IF ~tag.ok THEN SlotOutcome("ParamError", NoKey, TRUE, FALSE) ELSE
    \* Nonce::from_slice asserts the slice is NonceLen bytes long
    IF key_nonce.val.len # NonceLen
    THEN SlotOutcome("Panic", NoKey, TRUE, FALSE) ELSE
    LET plain == Aes256GcmDecrypt(derived_key.val, key_nonce.val,
                                  master_key_cipher.val, tag.val) IN
    IF plain.ok THEN SlotOutcome("Ok", plain.val, TRUE, TRUE)
    ELSE SlotOutcome("IncorrectPassword", NoKey, TRUE, TRUE)

FilterPassword_All(slots) == [i \in 1..Len(slots) |-> i]

RECURSIVE FilterPassword(_)
\* slots.iter().filter(|s| matches!(s.slot_type, SlotType::Password(_)))
\* (crypto.rs:114-117): the header positions of the Password slots, in
\* header order.
FilterPassword(slots) ==
    IF slots = <<>> THEN <<>>
    ELSE LET front == FilterPassword(SubSeq(slots, 1, Len(slots) - 1)) IN
         IF slots[Len(slots)].slot_type.tag = "Password"
         THEN Append(front, Len(slots)) ELSE front

\* The outcome of decrypt_database: Ok(db), Err(msg), or a panic; with whether
\* aes_context.decrypt and serde_json::from_str were called on the way.
DbOutcome(kind, msg, val, aead, parsed) ==
    [kind |-> kind, msg |-> msg, val |-> val, aead |-> aead, parsed |-> parsed]

NoDatabase == [version |-> 0, entries |-> <<>>]

\* db_cipher: the decoded database with the tag of params appended
\* (crypto.rs:152-155).
DbCipher(contents, tag) == [ct |-> contents, tag |-> tag]

\* decrypt_database (crypto.rs:146-169).
decrypt_database(params, key, encrypted_db) ==
    LET db_contents_cipher == Base64Decode(encrypted_db) IN
    IF ~db_contents_cipher.ok
    THEN DbOutcome("Err", "base64", NoDatabase, FALSE, FALSE) ELSE
    LET db_tag == FromHex(params.tag) IN
    IF ~db_tag.ok THEN DbOutcome("Err", "hex", NoDatabase, FALSE, FALSE) ELSE
    LET db_cipher == DbCipher(db_contents_cipher.val, db_tag.val) IN
    \* master_key.as_slice().into() asserts the slice is KeyLen bytes long
    IF key.len # KeyLen
    THEN DbOutcome("Panic", "key length", NoDatabase, FALSE, FALSE) ELSE
    LET db_nonce == FromHex(params.nonce) IN
    IF ~db_nonce.ok THEN DbOutcome("Err", "hex", NoDatabase, FALSE, FALSE) ELSE
    \* Nonce::from_slice asserts the slice is NonceLen bytes long
    IF db_nonce.val.len # NonceLen
    THEN DbOutcome("Panic", "nonce length", NoDatabase, FALSE, FALSE) ELSE
    LET db_contents == Aes256GcmDecrypt(key, db_nonce.val,
                                        db_cipher.ct, db_cipher.tag) IN
    IF ~db_contents.ok
    THEN DbOutcome("Err", "Failed to decrypt database", NoDatabase, TRUE, FALSE)
    ELSE
    LET db_contents_str == FromUtf8(db_contents.val) IN
    IF ~db_contents_str.ok
    THEN DbOutcome("Err", "utf8", NoDatabase, TRUE, FALSE) ELSE
    LET parsed == ParseDatabase(db_contents_str.val) IN
    IF ~parsed.ok THEN DbOutcome("Err", "json", NoDatabase, TRUE, TRUE)
    ELSE DbOutcome("Ok", "", parsed.val, TRUE, TRUE)

\* Header::is_set, which Vault::is_encrypted returns (lib.rs:53-55): both
\* slots and params are present.
is_set(header) == header.slots.some /\ header.params.some

is_encrypted_Inverted(v) == ~is_set(v.header)

\* Vault::is_encrypted (lib.rs:52-56).
is_encrypted(v) == is_set(v.header)

\* The two forms of the db field of a vault: a text holding the base64
\* database blob, or the database in the clear.
Encrypted(text) == [kind |-> "Encrypted", text |-> text]
Plain(json) == [kind |-> "Plain", json |-> json]

\* serde_json::from_str(&vault.db) of the plaintext path (lib.rs:90-93): a
\* base64 blob is no JSON of a Database.
ParsePlainDb(vault_db) ==
    IF vault_db.kind = "Plain" THEN ParseDatabase(vault_db.json)
    ELSE Err("Failed to parse JSON")

VaultVersionOk_AtLeast(version) == version >= VaultVersion

\* vault.version != 1 (lib.rs:76), negated.
VaultVersionOk(version) == version = VaultVersion

DatabaseVersionOk_AtLeast(version) == version >= DatabaseVersion

\* db.version != 2 (lib.rs:65), negated.
DatabaseVersionOk(version) == version = DatabaseVersion

\* What parse_aegis_vault returns, or the panic that ended it.
Result(kind, msg, entries) == [kind |-> kind, msg |-> msg, entries |-> entries]
Running == Result("Running", "", <<>>)
Error(msg) == Result("Err", msg, <<>>)
Panic(msg) == Result("Panic", msg, <<>>)
Entries(es) == Result("Ok", "", es)

\* ------------------------------------------------------------ the inputs

Passwords == {"p1", "p2"}

MasterKey1 == Bytes(KeyLen, 1)
MasterKey2 == Bytes(KeyLen, 2)
\* A wrapped key that is no AES-256 key: 16 bytes.
ShortKey == Bytes(16, 3)

SlotNonce == Bytes(NonceLen, 1)
DbNonce == Bytes(NonceLen, 2)
OtherNonce == Bytes(NonceLen, 3)
\* An 8-byte nonce: valid hex, not the length of an Aes256Gcm nonce.
ShortNonce == Bytes(8, 4)

Salt == Bytes(32, 1)
EmptySalt == Bytes(0, 0)

\* A Password slot as the encrypting side writes it: the master key mk
\* encrypted under the scrypt key of password pw at cost exponent log_n, with
\* the work factor n written in the slot.
WrapSlot(pw, n, log_n, mk) ==
    LET dk == ScryptHash(pw, Salt, [log_n |-> log_n, r |-> 8, p |-> 1, len |-> KeyLen])
        ct == Ciphertext(dk, SlotNonce, mk)
    IN  [slot_type |-> [tag |-> "Password", n |-> n, r |-> 8, p |-> 1,
                        salt |-> Text(TRUE, Salt)],
         key |-> Text(TRUE, ct),
         key_params |-> [nonce |-> Text(TRUE, SlotNonce),
                         tag |-> Text(TRUE, TagOf(ct))]]

\* Slots of a well-formed vault: n is the power of two 2^log_n.
Slot1 == WrapSlot("p1", 4, 2, MasterKey1)
Slot2 == WrapSlot("p2", 4, 2, MasterKey2)
Slot3 == WrapSlot("p1", 2, 1, MasterKey2)

\* A slot whose work factor 3 is no power of two, its key wrapped at the cost
\* exponent 1 = floor(log2 3).
SlotNotPow2 == WrapSlot("p1", 3, 1, MasterKey2)

\* A slot that wraps a 16-byte key.
SlotShortKey == WrapSlot("p1", 4, 2, ShortKey)

\* Slot1 with one field malformed or tampered with.
MalformedSlots ==
    { [Slot1 EXCEPT !.slot_type.salt = Text(FALSE, Salt)],
      [Slot1 EXCEPT !.slot_type.salt = Text(TRUE, EmptySalt)],
      [Slot1 EXCEPT !.slot_type.r = 0],
      [Slot1 EXCEPT !.key_params.nonce = Text(FALSE, SlotNonce)],
      [Slot1 EXCEPT !.key = Text(FALSE, @.bytes)],
      [Slot1 EXCEPT !.key_params.tag = Text(FALSE, @.bytes)],
      [Slot1 EXCEPT !.key_params.tag = Text(TRUE, FlipBit(@.bytes))] }

\* Slot1 with a nonce of 8 bytes.
SlotShortNonce == [Slot1 EXCEPT !.key_params.nonce = Text(TRUE, ShortNonce)]

\* Slots of the other two types: they carry no scrypt parameters.
OtherTypeSlots ==
    { [slot_type |-> [tag |-> t], key |-> Slot1.key, key_params |-> Slot1.key_params]
      : t \in {"Raw", "Biometric"} }

Slots ==
    {Slot1, Slot2, Slot3, SlotNotPow2, SlotShortKey, SlotShortNonce}
    \cup MalformedSlots \cup OtherTypeSlots

SlotLists == UNION { [1..n -> Slots] : n \in 0..MaxSlots }

Databases ==
    { [version |-> DatabaseVersion, entries |-> <<>>],
      [version |-> DatabaseVersion, entries |-> <<1, 2>>],
      [version |-> 3, entries |-> <<1>>] }

\* The params and db fields of a vault that holds the bytes pt encrypted under
\* the master key mk.
EncryptBody(pt, mk) ==
    LET ct == Ciphertext(mk, DbNonce, pt) IN
    [params |-> Some([nonce |-> Text(TRUE, DbNonce), tag |-> Text(TRUE, TagOf(ct))]),
     db |-> Encrypted(Text(TRUE, ct))]

\* The params and db fields of a vault that holds database d encrypted under
\* the master key mk.
EncryptDatabase(d, mk) == EncryptBody(Plaintext(TRUE, Serialize(d)), mk)

Body1 == EncryptDatabase([version |-> DatabaseVersion, entries |-> <<1, 2>>], MasterKey1)

\* Body1 with one field malformed or tampered with, and bodies whose plaintext
\* is no UTF-8 or no JSON of a Database.
MalformedBodies ==
    { [Body1 EXCEPT !.db.text = Text(TRUE, FlipBit(@.bytes))],
      [Body1 EXCEPT !.db.text = Text(FALSE, @.bytes)],
      [Body1 EXCEPT !.params.val.tag = Text(TRUE, FlipBit(@.bytes))],
      [Body1 EXCEPT !.params.val.tag = Text(FALSE, @.bytes)],
      [Body1 EXCEPT !.params.val.nonce = Text(FALSE, DbNonce)],
      [Body1 EXCEPT !.params.val.nonce = Text(TRUE, OtherNonce)],
      [Body1 EXCEPT !.params.val.nonce = Text(TRUE, ShortNonce)],
      EncryptBody(Plaintext(FALSE, Json(FALSE, <<>>)), MasterKey1),
      EncryptBody(Plaintext(TRUE, Json(FALSE, <<>>)), MasterKey1) }

PlainBodies ==
    { [params |-> None, db |-> Plain(Serialize(d))] : d \in Databases }
    \cup { [params |-> None, db |-> Plain(Json(FALSE, <<>>))] }

\* Bodies whose params and db disagree.
MixedBodies ==
    { [params |-> None, db |-> Body1.db],
      [params |-> Body1.params, db |-> Plain(Serialize([version |-> DatabaseVersion, entries |-> <<1, 2>>]))] }

Bodies ==
    { EncryptDatabase(d, MasterKey1) : d \in Databases }
    \cup { EncryptDatabase([version |-> DatabaseVersion, entries |-> <<1, 2>>], MasterKey2) }
    \cup MalformedBodies \cup PlainBodies \cup MixedBodies

MakeVault(version, slots, body) ==
    [version |-> version, header |-> [slots |-> slots, params |-> body.params],
     db |-> body.db]

\* Vault (lib.rs:43-50) with Header (crypto.rs:54-59): the vaults of the
\* supported version, and vaults of version 2, of which nothing but the
\* version is read, with one slot at most.
Vaults ==
    { MakeVault(VaultVersion, s, b)
      : s \in {None} \cup {Some(l) : l \in SlotLists}, b \in Bodies }
    \cup
    { MakeVault(2, s, b)
      : s \in {None} \cup {Some(l) : l \in [1..1 -> Slots]}, b \in Bodies }

NoVault == [version |-> 0, header |-> [slots |-> None, params |-> None],
            db |-> Plain(Json(FALSE, <<>>))]

\* ------------------------------------------------------- the state machine

Init ==
    /\ \/ doc_ok = TRUE /\ vault \in Vaults
       \/ doc_ok = FALSE /\ vault = NoVault
    /\ pc = "parse_aegis_vault"
    /\ password = ""
    /\ k = 1
    /\ master_key = NoKey
    /\ db = NoDatabase
    /\ result = Running
    /\ stderr = <<>>
    /\ pw_calls = 0
    /\ slot_calls = <<>>
    /\ derive_calls = <<>>
    /\ aead_calls = <<>>
    /\ db_aead = 0
    /\ db_parses = 0

Return(r) == pc' = "done" /\ result' = r

\* parse_aegis_vault, the parse of the document (lib.rs:60-63).
ParseVault ==
    /\ pc = "parse_aegis_vault"
    /\ IF doc_ok
       THEN pc' = "extract_database" /\ UNCHANGED result
       ELSE Return(Error("Failed to parse vault file"))
    /\ UNCHANGED <<doc_ok, vault, password, k, master_key, db, stderr, pw_calls,
                   slot_calls, derive_calls, aead_calls, db_aead, db_parses>>

\* extract_database up to its branch (lib.rs:75-95): the version check, then
\* the plaintext path in full or the start of the encrypted path.
ExtractDatabase ==
    /\ pc = "extract_database"
    /\ IF ~VaultVersionOk(vault.version)
       THEN /\ Return(Error("Unsupported vault version"))
            /\ UNCHANGED <<db, db_parses>>
       ELSE IF ~is_encrypted(vault)
       THEN LET parsed == ParsePlainDb(vault.db) IN
            /\ db_parses' = db_parses + 1
            /\ IF parsed.ok
               THEN db' = parsed.val /\ pc' = "check_database" /\ UNCHANGED result
               ELSE Return(Error("Failed to parse JSON")) /\ UNCHANGED db
       ELSE /\ pc' = "get_password"
            /\ UNCHANGED <<db, db_parses, result>>
    /\ UNCHANGED <<doc_ok, vault, password, k, master_key, stderr, pw_calls,
                   slot_calls, derive_calls, aead_calls, db_aead>>

\* get_password()? (lib.rs:96, 104-118): the password of the file or of the
\* prompt, or an I/O error.
GetPassword ==
    /\ pc = "get_password"
    /\ pw_calls' = pw_calls + 1
    /\ \/ \E pw \in Passwords :
            password' = pw /\ pc' = "decrypt" /\ UNCHANGED result
       \/ Return(Error("io")) /\ UNCHANGED password
    /\ UNCHANGED <<doc_ok, vault, k, master_key, db, stderr, slot_calls,
                   derive_calls, aead_calls, db_aead, db_parses>>

\* decrypt, its two header checks (crypto.rs:171-173).
Decrypt ==
    /\ pc = "decrypt"
    /\ IF ~vault.header.slots.some THEN Return(Error("No slots in header"))
       ELSE IF ~vault.header.params.some THEN Return(Error("No params in header"))
       ELSE pc' = "try_decrypt_master_key" /\ UNCHANGED result
    /\ UNCHANGED <<doc_ok, vault, password, k, master_key, db, stderr, pw_calls,
                   slot_calls, derive_calls, aead_calls, db_aead, db_parses>>

\* try_decrypt_master_key, one turn of its loop (crypto.rs:114-133).
TrySlot ==
    /\ pc = "try_decrypt_master_key"
    /\ LET slots == vault.header.slots.val
           eligible == FilterPassword(slots)
       IN  /\ k <= Len(eligible)
           /\ LET i == eligible[k]
                  out == decrypt_master_key(password, slots[i])
              IN  /\ slot_calls' = Append(slot_calls, i)
                  /\ derive_calls' = IF out.derived THEN Append(derive_calls, i)
                                     ELSE derive_calls
                  /\ aead_calls' = IF out.aead THEN Append(aead_calls, i)
                                   ELSE aead_calls
                  /\ CASE out.kind = "Ok" ->
                            /\ master_key' = out.val
                            /\ pc' = "decrypt_database"
                            /\ UNCHANGED <<k, stderr, result>>
                       [] out.kind = "IncorrectPassword" ->
                            /\ k' = k + 1
                            /\ UNCHANGED <<pc, master_key, stderr, result>>
                       [] out.kind = "ParamError" ->
                            /\ stderr' = Append(stderr, i)
                            /\ k' = k + 1
                            /\ UNCHANGED <<pc, master_key, result>>
                       [] out.kind = "Panic" ->
                            /\ Return(Panic("nonce length"))
                            /\ UNCHANGED <<k, master_key, stderr>>
    /\ UNCHANGED <<doc_ok, vault, password, db, pw_calls, db_aead, db_parses>>

\* try_decrypt_master_key, past its loop (crypto.rs:135).
SlotsExhausted ==
    /\ pc = "try_decrypt_master_key"
    /\ k > Len(FilterPassword(vault.header.slots.val))
    /\ Return(Error("Failed to decrypt master key"))
    /\ UNCHANGED <<doc_ok, vault, password, k, master_key, db, stderr, pw_calls,
                   slot_calls, derive_calls, aead_calls, db_aead, db_parses>>

\* decrypt, from the master key on (crypto.rs:176-181), and the return of
\* extract_database (lib.rs:97-99).
DecryptDatabase ==
    /\ pc = "decrypt_database"
    /\ IF vault.db.kind # "Encrypted"
       THEN /\ Return(Error("Database in vault is not encrypted"))
            /\ UNCHANGED <<db, db_aead, db_parses>>
       ELSE LET out == decrypt_database(vault.header.params.val, master_key,
                                        vault.db.text) IN
            /\ db_aead' = IF out.aead THEN db_aead + 1 ELSE db_aead
            /\ db_parses' = IF out.parsed THEN db_parses + 1 ELSE db_parses
            /\ CASE out.kind = "Ok" ->
                      db' = out.val /\ pc' = "check_database" /\ UNCHANGED result
                 [] out.kind = "Err" -> Return(Error(out.msg)) /\ UNCHANGED db
                 [] out.kind = "Panic" -> Return(Panic(out.msg)) /\ UNCHANGED db
    /\ UNCHANGED <<doc_ok, vault, password, k, master_key, stderr, pw_calls,
                   slot_calls, derive_calls, aead_calls>>

\* parse_aegis_vault, from the database on (lib.rs:65-72).
CheckDatabase ==
    /\ pc = "check_database"
    /\ IF ~DatabaseVersionOk(db.version)
       THEN Return(Error("Unsupported database version"))
       ELSE Return(Entries(db.entries))
    /\ UNCHANGED <<doc_ok, vault, password, k, master_key, db, stderr, pw_calls,
                   slot_calls, derive_calls, aead_calls, db_aead, db_parses>>

Next ==
    \/ ParseVault
    \/ ExtractDatabase
    \/ GetPassword
    \/ Decrypt
    \/ TrySlot
    \/ SlotsExhausted
    \/ DecryptDatabase
    \/ CheckDatabase

Spec == Init /\ [][Next]_vars

\* ------------------------------------------------------------- the claims

Range(seq) == { seq[j] : j \in 1..Len(seq) }

HeaderSlots == vault.header.slots.val

IsPasswordSlot(slot) == slot.slot_type.tag = "Password"

\* Slot i of the header authenticates under the password in use.
Authenticates(i) ==
    /\ IsPasswordSlot(HeaderSlots[i])
    /\ decrypt_master_key(password, HeaderSlots[i]).kind = "Ok"

\* The slot resolver was entered: the vault took the encrypted path and a
\* password was acquired.
ResolverEntered ==
    /\ doc_ok
    /\ vault.version = VaultVersion
    /\ vault.header.slots.some
    /\ vault.header.params.some
    /\ password \in Passwords

\* The slot resolver is over.
ResolverLeft == ResolverEntered /\ pc \in {"decrypt_database", "check_database", "done"}

\* C1: whenever no Password-tagged slot authenticates under the password in
\* use, the pipeline ends in the single error "Failed to decrypt master key":
\* the database is never decrypted and no entry list is returned.
C1_WrongPasswordRejected ==
    (/\ ResolverEntered
     /\ pc = "done"
     /\ \A i \in 1..Len(HeaderSlots) : ~Authenticates(i))
    => /\ result = Error("Failed to decrypt master key")
       /\ db_aead = 0
       /\ db_parses = 0

\* The vault that EncryptDatabase and WrapSlot build for database d, password
\* pw and master key mk, with work factor n = 2^log_n.
BuiltVault(d, pw, n, log_n, mk) ==
    MakeVault(VaultVersion, Some(<<WrapSlot(pw, n, log_n, mk)>>), EncryptDatabase(d, mk))

\* C2: round trip: decrypting, with password P, the vault built from database
\* D (of inner version 2), a single Password slot derived from P and the
\* master key, returns D: the same entries in the same order.
C2_RoundTrip ==
    \A d \in Databases, pw \in Passwords, mk \in {MasterKey1, MasterKey2},
       log_n \in {1, 2} :
        (/\ doc_ok
         /\ vault = BuiltVault(d, pw, 2^log_n, log_n, mk)
         /\ password = pw
         /\ pc \in {"decrypt_database", "check_database", "done"})
        => /\ master_key = mk
           /\ pc \in {"check_database", "done"} => db = d
           /\ (pc = "done" /\ d.version = DatabaseVersion)
                => result = Entries(d.entries)

C2_Witness ==
    /\ pc = "done"
    /\ doc_ok
    /\ password = "p2"
    /\ vault = BuiltVault([version |-> DatabaseVersion, entries |-> <<1, 2>>],
                          "p2", 4, 2, MasterKey2)
    /\ result = Entries(<<1, 2>>)

\* C3: version gating: a vault whose outer version is not 1 fails with the
\* unsupported-version error before anything else runs: no password is
\* acquired, no slot is tried, no key is derived, nothing is decrypted and the
\* db field is not parsed.
C3_VersionGating ==
    (doc_ok /\ vault.version # VaultVersion)
    => /\ pw_calls = 0
       /\ slot_calls = <<>>
       /\ derive_calls = <<>>
       /\ aead_calls = <<>>
       /\ db_aead = 0
       /\ db_parses = 0
       /\ pc \in {"parse_aegis_vault", "extract_database", "done"}
       /\ pc = "done" => result = Error("Unsupported vault version")

C3_Witness ==
    /\ pc = "done"
    /\ doc_ok
    /\ vault.version = 2
    /\ vault.header.slots = Some(<<Slot1>>)
    /\ [params |-> vault.header.params, db |-> vault.db] = Body1
    /\ result = Error("Unsupported vault version")

\* The database blob verifies under the recovered master key.
DbVerifies ==
    /\ vault.db.kind = "Encrypted"
    /\ vault.db.text.ok
    /\ vault.header.params.val.tag.ok
    /\ vault.header.params.val.nonce.ok
    /\ Authentic(master_key, vault.header.params.val.nonce.bytes,
                 vault.db.text.bytes, vault.header.params.val.tag.bytes)

\* C4: once a slot has yielded a master key, a database blob that fails
\* authenticated decryption ends the pipeline in the error "Failed to
\* decrypt database": no remaining slot is tried, the plaintext is never
\* parsed and no entries are returned.
C4_TamperDetection ==
    (ResolverLeft /\ db_aead > 0 /\ ~DbVerifies)
    => /\ pc = "done"
       /\ result = Error("Failed to decrypt database")
       /\ db = NoDatabase
       /\ db_parses = 0
       /\ db_aead = 1
       /\ Authenticates(slot_calls[Len(slot_calls)])
       /\ \A j \in 1..(Len(slot_calls) - 1) : ~Authenticates(slot_calls[j])
       /\ Cardinality(Range(slot_calls)) = Len(slot_calls)

C4_Witness ==
    /\ pc = "done"
    /\ ResolverLeft
    /\ HeaderSlots = <<Slot1, Slot3>>
    /\ password = "p1"
    /\ master_key = MasterKey1
    /\ vault.db = Encrypted(Text(TRUE, FlipBit(Body1.db.text.bytes)))
    /\ slot_calls = <<1>>
    /\ result = Error("Failed to decrypt database")

\* C5: a vault whose header has exactly one of slots and params is rejected
\* with an error: it is never processed as a plaintext vault and never yields
\* an entry list.
C5_HeaderConsistency ==
    (doc_ok /\ vault.header.slots.some # vault.header.params.some)
    => /\ result.kind # "Ok"
       /\ pc = "done" => result.kind = "Err"

\* C6: plaintext path: for a version-1 vault with slots and params both
\* absent, the db field is parsed directly and its entries are returned
\* unchanged and in order; no password is acquired, no key is derived and
\* nothing is decrypted.
C6_PlaintextPath ==
    (/\ doc_ok
     /\ vault.version = VaultVersion
     /\ ~vault.header.slots.some
     /\ ~vault.header.params.some)
    => /\ pw_calls = 0
       /\ slot_calls = <<>>
       /\ derive_calls = <<>>
       /\ aead_calls = <<>>
       /\ db_aead = 0
       /\ \A d \in Databases :
            vault.db = Plain(Serialize(d))
            => /\ pc \in {"check_database", "done"} => db = d /\ db_parses = 1
               /\ (pc = "done" /\ d.version = DatabaseVersion)
                    => result = Entries(d.entries)
       /\ result.kind = "Ok"
            => \E d \in Databases :
                 vault.db = Plain(Serialize(d)) /\ result = Entries(d.entries)

C6_Witness ==
    /\ pc = "done"
    /\ doc_ok
    /\ vault.version = VaultVersion
    /\ vault.header = [slots |-> None, params |-> None]
    /\ vault.db = Plain(Serialize([version |-> DatabaseVersion, entries |-> <<1, 2>>]))
    /\ result = Entries(<<1, 2>>)

\* C7: on both paths, a Database whose inner version is not 2 ends
\* parse_aegis_vault in the unsupported-version error with no entries;
\* entries are returned only when the outer version is 1 and the inner
\* version is 2.
C7_InnerVersion ==
    /\ (pc = "done" /\ db # NoDatabase /\ db.version # DatabaseVersion)
         => result = Error("Unsupported database version")
    /\ result.kind = "Ok"
         => /\ vault.version = VaultVersion
            /\ db.version = DatabaseVersion
            /\ result.entries = db.entries

C7_Witness ==
    /\ pc = "done"
    /\ db = [version |-> 3, entries |-> <<1>>]
    /\ db_aead = 1
    /\ result = Error("Unsupported database version")

\* C8: only Password slots are tried, in header order, none twice and none
\* skipped; the master key returned is that of the first slot that
\* authenticates, and no slot after it is derived for or decrypted.
C8_ShortCircuit ==
    slot_calls # <<>> =>
      /\ \A j \in 1..Len(slot_calls) :
           /\ slot_calls[j] \in 1..Len(HeaderSlots)
           /\ IsPasswordSlot(HeaderSlots[slot_calls[j]])
           /\ j > 1 => slot_calls[j - 1] < slot_calls[j]
           /\ \A i \in 1..(slot_calls[j] - 1) :
                IsPasswordSlot(HeaderSlots[i]) => i \in Range(slot_calls)
           /\ j < Len(slot_calls) => ~Authenticates(slot_calls[j])
      /\ Range(derive_calls) \subseteq Range(slot_calls)
      /\ Range(aead_calls) \subseteq Range(slot_calls)
      /\ master_key # NoKey
           => LET first == slot_calls[Len(slot_calls)] IN
              /\ Authenticates(first)
              /\ master_key = decrypt_master_key(password, HeaderSlots[first]).val
              /\ pc # "try_decrypt_master_key"

C8_Witness ==
    /\ pc = "done"
    /\ ResolverLeft
    /\ password = "p1"
    /\ HeaderSlots = <<Slot1, Slot3>>
    /\ master_key = MasterKey1
    /\ slot_calls = <<1>>
    /\ derive_calls = <<1>>
    /\ aead_calls = <<1>>

\* C9: a Password slot that fails, by a wrong password or by malformed
\* parameters, never aborts resolution: whenever some Password slot of the
\* list authenticates, resolution returns the master key of that slot (the
\* first such slot).
C9_SkipAndContinue ==
    (/\ ResolverEntered
     /\ pc \in {"decrypt_database", "check_database", "done"}
     /\ \E i \in 1..Len(HeaderSlots) : Authenticates(i))
    => \E i \in 1..Len(HeaderSlots) :
         /\ Authenticates(i)
         /\ \A h \in 1..(i - 1) : ~Authenticates(h)
         /\ master_key = decrypt_master_key(password, HeaderSlots[i]).val
         /\ result.kind # "Panic"

RECURSIVE IsPowerOfTwo(_)
IsPowerOfTwo(n) == n >= 1 /\ (n = 1 \/ (n % 2 = 0 /\ IsPowerOfTwo(n \div 2)))

\* C10: a Password slot whose work factor n is no power of two fails key
\* derivation with a parameter error and is skipped: the error is reported
\* and no decryption is attempted with a key derived at the rounded-down
\* cost.
C10_PowerOfTwo ==
    \A j \in 1..Len(slot_calls) :
        ~IsPowerOfTwo(HeaderSlots[slot_calls[j]].slot_type.n)
        => /\ slot_calls[j] \in Range(stderr)
           /\ slot_calls[j] \notin Range(aead_calls)

\* The runs in which C1 and C9 fail are those that end in the panic of
\* Nonce::from_slice (crypto.rs:108): every run that ends otherwise satisfies
\* both.
OnlyPanicDiverges ==
    result.kind # "Panic" => C1_WrongPasswordRejected /\ C9_SkipAndContinue

=============================================================================
